---------------------------- MODULE Spec2Model ----------------------------
(***************************************************************************)
(* State-machine model of the two entrypoints of claude-code-action:       *)
(*                                                                         *)
(*   src/entrypoints/prepare.ts                  ("prepare" run)           *)
(*   src/entrypoints/post-self-review-comment.ts ("post" run)              *)
(*                                                                         *)
(* A process executes exactly one entrypoint (`if (import.meta.main)       *)
(* run()`), so Init chooses which one.  Every `await` of a collaborator is *)
(* one action; the collaborator's result (return value or thrown error) is *)
(* an input drawn with \E.  The try/catch around each run is part of every *)
(* action that can throw.                                                  *)
(*                                                                         *)
(* Text is modelled as a sequence of tokens (strings); a literal that the  *)
(* code searches for is a fixed token sequence and String.includes is a    *)
(* contiguous-subsequence search.                                          *)
(***************************************************************************)
EXTENDS Integers, Sequences, FiniteSets, TLC

VARIABLES
    entry,            \* which entrypoint this process runs: "prepare" | "post"
    pc,               \* position of run() (orchestrator state)
    path,             \* orchestrator states entered so far, in order
    calls,            \* log of collaborator calls: <<[fn, arg], ...>>
    context,          \* result of parseGitHubContext(), None before
    outputs,          \* core.setOutput key -> value (None: never set)
    failedMsg,        \* argument of core.setFailed, None if never called
    exitCode,         \* process exit code
    containsTrigger,  \* prepare.ts: result of checkTriggerAction
    isSelfReview,     \* prepare.ts: let isSelfReview
    commentId,        \* prepare.ts: const commentId
    branchInfo,       \* prepare.ts: const branchInfo
    githubToken,      \* post: process.env.GITHUB_TOKEN
    claudeCommentId,  \* post: process.env.CLAUDE_COMMENT_ID
    priorRead,        \* post: outcome of the getComment read
    repo              \* comments / branches this run created in the repository

vars == <<entry, pc, path, calls, context, outputs, failedMsg, exitCode,
          containsTrigger, isSelfReview, commentId, branchInfo,
          githubToken, claudeCommentId, priorRead, repo>>

prepareVars == <<containsTrigger, isSelfReview, commentId, branchInfo>>
postVars    == <<githubToken, claudeCommentId, priorRead>>

\* A value that may be undefined / null: None, or Some(v)
None == <<>>
Some(v) == <<v>>

-----------------------------------------------------------------------------
(* Bounds *)

MaxBodyLen == 3     \* longest comment body, in tokens
MaxCommentId == 2   \* comment ids the host hands out are 1..MaxCommentId

-----------------------------------------------------------------------------
(* Text *)

\* "<!-- claude-self-review -->"  (prepare.ts:45)
SelfReviewMarker == <<"<!-- claude-self-review", "-->">>

\* "✅ No further improvements needed"  (post-self-review-comment.ts:38)
NoImprovementsMarker == <<"[check-mark]", "No further improvements needed">>

\* sequences over S of length 0..n
RECURSIVE SeqsUpTo(_, _)
SeqsUpTo(S, n) ==
    IF n = 0 THEN {<<>>}
    ELSE LET shorter == SeqsUpTo(S, n - 1)
         IN  shorter \cup {Append(s, x) : s \in {t \in shorter : Len(t) = n - 1}, x \in S}

\* String.prototype.includes: sub occurs in s as a contiguous run
Includes(s, sub) ==
    \E i \in 0..(Len(s) - Len(sub)) :
        \A j \in 1..Len(sub) : s[i + j] = sub[j]

\* `x || ""` on a nullable string (prepare.ts:42)
OrEmpty(opt) == IF opt = None \/ opt[1] = <<>> THEN <<>> ELSE opt[1]

\* JavaScript truthiness of a nullable string (undefined and "" are falsy)
Truthy(opt) == opt # None /\ opt[1] # <<>>

\* decimal digits of a natural number: Number.prototype.toString()
Digit(d) == CASE d = 0 -> "0" [] d = 1 -> "1" [] d = 2 -> "2" [] d = 3 -> "3"
              [] d = 4 -> "4" [] d = 5 -> "5" [] d = 6 -> "6" [] d = 7 -> "7"
              [] d = 8 -> "8" [] d = 9 -> "9"

RECURSIVE NumToStr(_)
NumToStr(n) == IF n < 10 THEN <<Digit(n)>>
               ELSE Append(NumToStr(n \div 10), Digit(n % 10))

-----------------------------------------------------------------------------
(* Thrown values and the catch blocks *)

\* What collaborator fn can throw: an Error object, or some other value
Thrown(fn) ==
    { [isError |-> TRUE,  message |-> <<fn, "failed">>, string |-> <<"Error: ", fn, "failed">>],
      [isError |-> FALSE, message |-> <<>>,             string |-> <<fn, "rejected">>] }

\* new Error(msg)
Error(msg) == [isError |-> TRUE, message |-> <<msg>>, string |-> <<"Error: ", msg>>]

\* error instanceof Error ? error.message : String(error)
ErrorMessage(e) == IF e.isError THEN e.message ELSE e.string

OutputKeys == {"mcp_config", "prepare_error", "self_review_comment_id"}

\* the call log: a collaborator was called and returned / threw
Returned(fn, arg, value) ==
    calls' = Append(calls, [fn |-> fn, arg |-> arg, result |-> value, error |-> None])

Threw(fn, arg, e) ==
    calls' = Append(calls, [fn |-> fn, arg |-> arg, result |-> "threw", error |-> Some(e)])

Advance(label) == pc' = label /\ path' = Append(path, label)

\* (mutant) the catch block reports the failure but sets no output
PrepareCatch_NoOutput(e) ==
    /\ failedMsg' = Some(<<"Prepare step failed with error: ">> \o ErrorMessage(e))
    /\ exitCode' = 1
    /\ Advance("failed")
    /\ UNCHANGED <<outputs, repo>>

\* (mutant) the catch block also deletes the tracking comment
PrepareCatch_Rollback(e) ==
    /\ failedMsg' = Some(<<"Prepare step failed with error: ">> \o ErrorMessage(e))
    /\ outputs' = [outputs EXCEPT !["prepare_error"] = Some(ErrorMessage(e))]
    /\ exitCode' = 1
    /\ Advance("failed")
    /\ repo' = [repo EXCEPT !.tracking = <<>>]

\* (mutant) the catch block also writes an empty configuration
PrepareCatch_FallbackConfig(e) ==
    /\ failedMsg' = Some(<<"Prepare step failed with error: ">> \o ErrorMessage(e))
    /\ outputs' = [outputs EXCEPT !["prepare_error"] = Some(ErrorMessage(e)),
                                  !["mcp_config"] = Some([mcpServers |-> <<>>])]
    /\ exitCode' = 1
    /\ Advance("failed")
    /\ UNCHANGED repo

\* catch block of prepare.ts: setFailed, setOutput, process.exit(1); it
\* calls no collaborator and touches nothing in the repository
PrepareCatch(e) ==
    /\ failedMsg' = Some(<<"Prepare step failed with error: ">> \o ErrorMessage(e))
    /\ outputs' = [outputs EXCEPT !["prepare_error"] = Some(ErrorMessage(e))]
    /\ exitCode' = 1
    /\ Advance("failed")
    /\ UNCHANGED repo

\* (mutant) the catch block reports the failure but does not exit non-zero
PostCatch_NoExit(e) ==
    /\ failedMsg' = Some(<<"Post self-review comment failed: ">> \o ErrorMessage(e))
    /\ Advance("failed")
    /\ UNCHANGED <<outputs, exitCode>>

\* catch block of post-self-review-comment.ts
PostCatch(e) ==
    /\ failedMsg' = Some(<<"Post self-review comment failed: ">> \o ErrorMessage(e))
    /\ exitCode' = 1
    /\ Advance("failed")
    /\ UNCHANGED outputs

NoFailure == UNCHANGED <<outputs, failedMsg, exitCode>>

\* a step of prepare.ts went through without touching the repository
Proceeds == NoFailure /\ UNCHANGED repo

-----------------------------------------------------------------------------
(* prepare.ts: inputs *)

Events == {"issue_comment", "pull_request_review_comment", "issues"}
UserTypes == {"Bot", "User"}
Logins == {"github-actions[bot]", "dependabot[bot]", "alice"}

\* tokens a comment body is made of
BodyTokens == {"<!-- claude-self-review", "-->", "@claude"}
Bodies == SeqsUpTo(BodyTokens, MaxBodyLen)

\* context.payload.comment
Comments == [body : {None} \cup {Some(b) : b \in Bodies},
             user : [type : UserTypes, login : Logins]]

\* what parseGitHubContext() can return in a prepare run
PrepareContexts ==
    [eventName : Events,
     payload   : [comment : {None} \cup {Some(c) : c \in Comments}]]

CommentIds == 1..MaxCommentId

\* what setupBranch can return: a new branch for an issue, or the PR's own
BranchInfos ==
    { [claudeBranch |-> Some(<<"claude/issue-42">>), baseBranch |-> "main",
       currentBranch |-> "claude/issue-42"],
      [claudeBranch |-> None, baseBranch |-> "main", currentBranch |-> "pr-head"] }

-----------------------------------------------------------------------------
(* prepare.ts: run() *)

\* (mutant) the data is fetched before the tracking comment is created
PrepareSteps_FetchFirst ==
    << "start", "token-acquired", "context-parsed", "trigger-checked",
       "self-review-classified", "permission-checked", "authorized",
       "data-fetched", "comment-created", "branch-resolved",
       "comment-updated", "prompt-prepared", "config-prepared", "done" >>

\* (mutant) the tracking comment is created only after the branch is set up
PrepareSteps_CommentLate ==
    << "start", "token-acquired", "context-parsed", "trigger-checked",
       "self-review-classified", "permission-checked", "authorized",
       "data-fetched", "branch-resolved", "comment-created",
       "comment-updated", "prompt-prepared", "config-prepared", "done" >>

\* The order of the steps of run(); each state is named after the step
\* that has completed.
PrepareSteps ==
    << "start", "token-acquired", "context-parsed", "trigger-checked",
       "self-review-classified", "permission-checked", "authorized",
       "comment-created", "data-fetched", "branch-resolved",
       "comment-updated", "prompt-prepared", "config-prepared", "done" >>

IndexOf(seq, x) == CHOOSE i \in 1..Len(seq) : seq[i] = x

\* run() is about to execute the step that leads to `label`
PrepareAt(label) ==
    /\ entry = "prepare"
    /\ IndexOf(PrepareSteps, label) > 1
    /\ pc = PrepareSteps[IndexOf(PrepareSteps, label) - 1]

\* Step 1: setupGitHubToken, createOctokit
SetupGitHubToken ==
    /\ PrepareAt("token-acquired")
    /\ \/ /\ Returned("setupGitHubToken", <<>>, "ok")
          /\ Advance("token-acquired")
          /\ Proceeds
       \/ \E e \in Thrown("setupGitHubToken") :
            Threw("setupGitHubToken", <<>>, e) /\ PrepareCatch(e)
    /\ UNCHANGED <<entry, context, prepareVars, postVars>>

\* Step 2: parseGitHubContext
ParseContext ==
    /\ PrepareAt("context-parsed")
    /\ \/ \E c \in PrepareContexts :
            /\ Returned("parseGitHubContext", <<>>, "ok")
            /\ context' = Some(c)
            /\ Advance("context-parsed")
            /\ Proceeds
       \/ \E e \in Thrown("parseGitHubContext") :
            /\ Threw("parseGitHubContext", <<>>, e)
            /\ PrepareCatch(e)
            /\ UNCHANGED context
    /\ UNCHANGED <<entry, prepareVars, postVars>>

\* (mutant) the early return is missing
AfterTrigger_NoReturn(found) == "trigger-checked"

\* (mutant) without a trigger the check is made again instead of returning
AfterTrigger_Retry(found) == IF ~found THEN "context-parsed" ELSE "trigger-checked"

\* `if (!containsTrigger) return;`
AfterTrigger(found) == IF ~found THEN "no-trigger" ELSE "trigger-checked"

\* Step 3: checkTriggerAction
CheckTrigger ==
    /\ PrepareAt("trigger-checked")
    /\ \/ \E found \in BOOLEAN :
            /\ Returned("checkTriggerAction", <<>>, IF found THEN "true" ELSE "false")
            /\ containsTrigger' = Some(found)
            /\ Advance(AfterTrigger(found))
            /\ Proceeds
       \/ \E e \in Thrown("checkTriggerAction") :
            /\ Threw("checkTriggerAction", <<>>, e)
            /\ PrepareCatch(e)
            /\ UNCHANGED containsTrigger
    /\ UNCHANGED <<entry, context, isSelfReview, commentId, branchInfo, postVars>>

\* (mutant) the author's login is not compared
IsSelfReviewComment_AnyBot(ctx) ==
    /\ ctx.eventName = "issue_comment"
    /\ ctx.payload.comment # None
    /\ Includes(OrEmpty(ctx.payload.comment[1].body), SelfReviewMarker)
    /\ ctx.payload.comment[1].user.type = "Bot"

\* The value of isSelfReview after Step 4
IsSelfReviewComment(ctx) ==
    /\ ctx.eventName = "issue_comment"
    /\ ctx.payload.comment # None
    /\ LET comment     == ctx.payload.comment[1]
           commentBody == OrEmpty(comment.body)
           commentUser == comment.user
       IN  /\ Includes(commentBody, SelfReviewMarker)
           /\ commentUser.type = "Bot"
           /\ commentUser.login = "github-actions[bot]"

\* Step 4: classify the event (no collaborator is called)
ClassifySelfReview ==
    /\ PrepareAt("self-review-classified")
    /\ isSelfReview' = IsSelfReviewComment(context[1])
    /\ Advance("self-review-classified")
    /\ NoFailure
    /\ UNCHANGED <<entry, calls, context, containsTrigger, commentId, branchInfo,
                   postVars, repo>>

\* (mutant) the actor checks run for self-review events too
ActorChecksNeeded_Always(selfReview) == TRUE

\* `if (!isSelfReview)` guarding Steps 5 and 6
ActorChecksNeeded(selfReview) == ~selfReview

\* (mutant) a missing write permission does not stop the run
PermissionDenied_Never(hasWritePermissions) == FALSE

\* `if (!hasWritePermissions) throw`
PermissionDenied(hasWritePermissions) == ~hasWritePermissions

\* Step 5: checkWritePermissions
CheckWritePermissions ==
    /\ PrepareAt("permission-checked")
    /\ IF ActorChecksNeeded(isSelfReview)
       THEN \/ \E hasWritePermissions \in BOOLEAN :
                 /\ Returned("checkWritePermissions", <<>>,
                             IF hasWritePermissions THEN "true" ELSE "false")
                 /\ IF PermissionDenied(hasWritePermissions)
                    THEN PrepareCatch(Error("Actor does not have write permissions to the repository"))
                    ELSE Advance("permission-checked") /\ Proceeds
            \/ \E e \in Thrown("checkWritePermissions") :
                 Threw("checkWritePermissions", <<>>, e) /\ PrepareCatch(e)
       ELSE /\ Advance("permission-checked")
            /\ Proceeds
            /\ UNCHANGED calls
    /\ UNCHANGED <<entry, context, prepareVars, postVars>>

\* checkHumanActor rejects an actor whose account is not a human's
\* (github/validation/actor.ts)
HumanActorRejected(actorType) == actorType # "User"

\* Step 6: checkHumanActor; it looks up the actor's account type, logged
\* here as the call's argument, and throws for a non-human actor or when
\* the lookup fails
CheckHumanActor ==
    /\ PrepareAt("authorized")
    /\ IF ActorChecksNeeded(isSelfReview)
       THEN \/ \E actorType \in UserTypes :
                 IF HumanActorRejected(actorType)
                 THEN LET e == Error("Workflow initiated by non-human actor")
                      IN  Threw("checkHumanActor", <<actorType>>, e) /\ PrepareCatch(e)
                 ELSE /\ Returned("checkHumanActor", <<actorType>>, "ok")
                      /\ Advance("authorized")
                      /\ Proceeds
            \/ \E e \in Thrown("checkHumanActor") :
                 Threw("checkHumanActor", <<"unknown">>, e) /\ PrepareCatch(e)
       ELSE /\ Advance("authorized")
            /\ Proceeds
            /\ UNCHANGED calls
    /\ UNCHANGED <<entry, context, prepareVars, postVars>>

\* Step 7: createInitialComment
CreateInitialComment ==
    /\ PrepareAt("comment-created")
    /\ \/ \E id \in CommentIds :
            /\ Returned("createInitialComment", <<>>, "ok")
            /\ commentId' = Some(id)
            /\ repo' = [repo EXCEPT !.tracking = Append(@, [id |-> id, branch |-> None])]
            /\ Advance("comment-created")
            /\ NoFailure
       \/ \E e \in Thrown("createInitialComment") :
            /\ Threw("createInitialComment", <<>>, e)
            /\ PrepareCatch(e)
            /\ UNCHANGED commentId
    /\ UNCHANGED <<entry, context, containsTrigger, isSelfReview, branchInfo, postVars>>

\* Step 8: fetchGitHubData
FetchGitHubData ==
    /\ PrepareAt("data-fetched")
    /\ \/ /\ Returned("fetchGitHubData", <<>>, "ok")
          /\ Advance("data-fetched")
          /\ Proceeds
       \/ \E e \in Thrown("fetchGitHubData") :
            Threw("fetchGitHubData", <<>>, e) /\ PrepareCatch(e)
    /\ UNCHANGED <<entry, context, prepareVars, postVars>>

\* Step 9: setupBranch
SetupBranch ==
    /\ PrepareAt("branch-resolved")
    /\ \/ \E b \in BranchInfos :
            /\ Returned("setupBranch", <<>>, "ok")
            /\ branchInfo' = Some(b)
            /\ repo' = [repo EXCEPT !.branches =
                            IF b.claudeBranch # None THEN @ \cup {b.claudeBranch[1]} ELSE @]
            /\ Advance("branch-resolved")
            /\ NoFailure
       \/ \E e \in Thrown("setupBranch") :
            /\ Threw("setupBranch", <<>>, e)
            /\ PrepareCatch(e)
            /\ UNCHANGED branchInfo
    /\ UNCHANGED <<entry, context, containsTrigger, isSelfReview, commentId, postVars>>

\* (mutant) the tracking comment is never updated
UpdateNeeded_Never(info) == FALSE

\* `if (branchInfo.claudeBranch)`
UpdateNeeded(info) == Truthy(info.claudeBranch)

\* (mutant) the update is addressed to another comment than the one created
UpdateArgs_OtherComment(id, info) == <<id + 1, info.claudeBranch[1]>>

\* the comment id and branch handed to updateTrackingComment
UpdateArgs(id, info) == <<id, info.claudeBranch[1]>>

\* Step 10: updateTrackingComment
UpdateTrackingComment ==
    /\ PrepareAt("comment-updated")
    /\ IF UpdateNeeded(branchInfo[1])
       THEN LET args == UpdateArgs(commentId[1], branchInfo[1])
            IN  \/ /\ Returned("updateTrackingComment", args, "ok")
                   /\ repo' = [repo EXCEPT !.tracking =
                         [i \in DOMAIN @ |->
                             IF @[i].id = args[1]
                             THEN [@[i] EXCEPT !.branch = Some(args[2])]
                             ELSE @[i]]]
                   /\ Advance("comment-updated")
                   /\ NoFailure
                \/ \E e \in Thrown("updateTrackingComment") :
                     /\ Threw("updateTrackingComment", args, e)
                     /\ PrepareCatch(e)
       ELSE /\ Advance("comment-updated")
            /\ NoFailure
            /\ UNCHANGED <<calls, repo>>
    /\ UNCHANGED <<entry, context, prepareVars, postVars>>

\* Step 11: createPrompt
CreatePrompt ==
    /\ PrepareAt("prompt-prepared")
    /\ LET args == <<commentId[1], branchInfo[1].baseBranch, branchInfo[1].claudeBranch>>
       IN  \/ /\ Returned("createPrompt", args, "ok")
              /\ Advance("prompt-prepared")
              /\ Proceeds
           \/ \E e \in Thrown("createPrompt") :
                Threw("createPrompt", args, e) /\ PrepareCatch(e)
    /\ UNCHANGED <<entry, context, prepareVars, postVars>>

\* Step 12: prepareMcpConfig, then core.setOutput("mcp_config", ...);
\* run() returns
PrepareMcpConfig ==
    /\ PrepareAt("config-prepared")
    /\ LET args == [branch |-> branchInfo[1].currentBranch,
                    claudeCommentId |-> NumToStr(commentId[1])]
       IN  \/ /\ Returned("prepareMcpConfig", <<args>>, "ok")
              /\ outputs' = [outputs EXCEPT !["mcp_config"] = Some([mcpServers |-> args])]
              /\ pc' = "done"
              /\ path' = path \o <<"config-prepared", "done">>
              /\ UNCHANGED <<failedMsg, exitCode, repo>>
           \/ \E e \in Thrown("prepareMcpConfig") :
                Threw("prepareMcpConfig", <<args>>, e) /\ PrepareCatch(e)
    /\ UNCHANGED <<entry, context, prepareVars, postVars>>

-----------------------------------------------------------------------------
(* post-self-review-comment.ts: inputs *)

\* process.env.GITHUB_TOKEN: undefined, "" or a token
GithubTokens == {None, Some(<<>>), Some(<<"ghs_token">>)}

\* process.env.CLAUDE_COMMENT_ID: undefined, "" or a string of characters
ClaudeCommentIds ==
    {None, Some(<<>>), Some(<<"7">>), Some(<<"1", "2">>), Some(<<"7", "x">>), Some(<<"a">>)}

EntityNumbers == {3, 42}

\* what parseGitHubContext() can return in a post run
PostContexts ==
    [repository : {[owner |-> "octo", repo |-> "demo"]}, entityNumber : EntityNumbers]

\* tokens the prior tracking comment's body is made of
PriorTokens == {"[check-mark]", "No further improvements needed", "Done"}
PriorBodies == SeqsUpTo(PriorTokens, MaxBodyLen)

IsDigit(c) == c \in {"0", "1", "2", "3", "4", "5", "6", "7", "8", "9"}

DigitVal(c) == CHOOSE d \in 0..9 : Digit(d) = c

\* parseInt(s, 10): the value of the leading digits, None for NaN
RECURSIVE ParseDigits(_, _, _)
ParseDigits(s, i, acc) ==
    IF i <= Len(s) /\ IsDigit(s[i])
    THEN ParseDigits(s, i + 1, acc * 10 + DigitVal(s[i]))
    ELSE acc

ParseInt(s) == IF s # <<>> /\ IsDigit(s[1]) THEN Some(ParseDigits(s, 1, 0)) ELSE None

\* `${x}` in a template literal
Interpolate(opt) == IF opt = None THEN <<"undefined">> ELSE opt[1]

\* the template literal `body` of the self-review request
SelfReviewBody(id, owner, repoName, entityNumber) ==
    << "@claude", "Please review the changes you just made: [six review points]",
       "Reference: Original task [comment #" >>
    \o Interpolate(id)
    \o << "](https://github.com/", owner, "/", repoName, "/issues/" >>
    \o NumToStr(entityNumber)
    \o << "#issuecomment-" >>
    \o Interpolate(id)
    \o << ")" >>

-----------------------------------------------------------------------------
(* post-self-review-comment.ts: run() *)

PostSteps ==
    << "start", "token-acquired", "context-parsed", "prior-comment-checked",
       "comment-posted", "done" >>

PostAt(label) ==
    /\ entry = "post"
    /\ IndexOf(PostSteps, label) > 1
    /\ pc = PostSteps[IndexOf(PostSteps, label) - 1]

\* (mutant) the token check is missing
TokenMissing_Never(token) == FALSE

\* `if (!githubToken)`
TokenMissing(token) == ~Truthy(token)

\* "Get required environment variables"
ReadEnv ==
    /\ PostAt("token-acquired")
    /\ \E token \in GithubTokens, id \in ClaudeCommentIds :
          /\ githubToken' = token
          /\ claudeCommentId' = id
          /\ IF TokenMissing(token)
             THEN PostCatch(Error("GITHUB_TOKEN is required"))
             ELSE Advance("token-acquired") /\ NoFailure
    /\ UNCHANGED <<entry, calls, context, prepareVars, priorRead, repo>>

\* "Parse context", "Create GitHub client"
ParseContextPost ==
    /\ PostAt("context-parsed")
    /\ \/ \E c \in PostContexts :
            /\ Returned("parseGitHubContext", <<>>, "ok")
            /\ context' = Some(c)
            /\ Advance("context-parsed")
            /\ NoFailure
       \/ \E e \in Thrown("parseGitHubContext") :
            /\ Threw("parseGitHubContext", <<>>, e)
            /\ PostCatch(e)
            /\ UNCHANGED context
    /\ UNCHANGED <<entry, prepareVars, postVars, repo>>

\* (mutant) the body is compared with the marker instead of searched
HasNoImprovements_Equals(body) == body # None /\ body[1] = NoImprovementsMarker

\* comment.data.body?.includes("✅ No further improvements needed")
HasNoImprovements(body) == body # None /\ Includes(body[1], NoImprovementsMarker)

\* (mutant) the id is tested against undefined only, so "" is read too
ReadNeeded_IfDefined(id) == id # None

\* the read is attempted only `if (claudeCommentId)`
ReadNeeded(id) == Truthy(id)

\* (mutant) the read error reaches the outer catch
ReadFailed_Rethrown(e) ==
    /\ priorRead' = [outcome |-> "threw", body |-> None]
    /\ PostCatch(e)

\* what the inner catch does with a failed read: warn and carry on
ReadFailed(e) ==
    /\ priorRead' = [outcome |-> "threw", body |-> None]
    /\ Advance("prior-comment-checked")
    /\ NoFailure

\* "Check if this is already a self-review that found no issues"
CheckPreviousComment ==
    /\ PostAt("prior-comment-checked")
    /\ IF ReadNeeded(claudeCommentId)
       THEN LET args == <<ParseInt(claudeCommentId[1])>>
            IN  \/ \E body \in {None} \cup {Some(b) : b \in PriorBodies} :
                     /\ Returned("getComment", args, "ok")
                     /\ priorRead' = [outcome |-> "ok", body |-> body]
                     /\ IF HasNoImprovements(body)
                        THEN /\ pc' = "done"
                             /\ path' = path \o <<"prior-comment-checked", "suppressed", "done">>
                        ELSE Advance("prior-comment-checked")
                     /\ NoFailure
                \/ \E e \in Thrown("getComment") :
                     Threw("getComment", args, e) /\ ReadFailed(e)
       ELSE /\ priorRead' = [outcome |-> "skipped", body |-> None]
            /\ Advance("prior-comment-checked")
            /\ NoFailure
            /\ UNCHANGED calls
    /\ UNCHANGED <<entry, context, prepareVars, githubToken, claudeCommentId, repo>>

\* "Create self-review comment", core.setOutput; run() returns
CreateSelfReviewComment ==
    /\ PostAt("comment-posted")
    /\ LET ctx  == context[1]
           body == SelfReviewBody(claudeCommentId, ctx.repository.owner,
                                  ctx.repository.repo, ctx.entityNumber)
       IN  \/ \E id \in CommentIds :
                   /\ Returned("createComment", <<ctx.entityNumber, body>>, "ok")
                   /\ repo' = [repo EXCEPT !.posted =
                                  Append(@, [id |-> id, issue |-> ctx.entityNumber,
                                             body |-> body])]
                   /\ outputs' = [outputs EXCEPT
                                     !["self_review_comment_id"] = Some(NumToStr(id))]
                   /\ pc' = "done"
                   /\ path' = path \o <<"comment-posted", "done">>
                   /\ UNCHANGED <<failedMsg, exitCode>>
           \/ \E e \in Thrown("createComment") :
                   /\ Threw("createComment", <<ctx.entityNumber, body>>, e)
                   /\ PostCatch(e)
                   /\ UNCHANGED repo
    /\ UNCHANGED <<entry, context, prepareVars, postVars>>

-----------------------------------------------------------------------------
(* The process *)

Init ==
    /\ entry \in {"prepare", "post"}
    /\ pc = "start"
    /\ path = <<"start">>
    /\ calls = <<>>
    /\ context = None
    /\ outputs = [k \in OutputKeys |-> None]
    /\ failedMsg = None
    /\ exitCode = 0
    /\ containsTrigger = None
    /\ isSelfReview = FALSE
    /\ commentId = None
    /\ branchInfo = None
    /\ githubToken = None
    /\ claudeCommentId = None
    /\ priorRead = [outcome |-> "none", body |-> None]
    /\ repo = [tracking |-> <<>>, posted |-> <<>>, branches |-> {}]

Next ==
    \/ SetupGitHubToken
    \/ ParseContext
    \/ CheckTrigger
    \/ ClassifySelfReview
    \/ CheckWritePermissions
    \/ CheckHumanActor
    \/ CreateInitialComment
    \/ FetchGitHubData
    \/ SetupBranch
    \/ UpdateTrackingComment
    \/ CreatePrompt
    \/ PrepareMcpConfig
    \/ ReadEnv
    \/ ParseContextPost
    \/ CheckPreviousComment
    \/ CreateSelfReviewComment

Spec == Init /\ [][Next]_vars

\* run() is one sequential async function: every awaited collaborator call
\* eventually returns or throws, so a run that can take a step takes one
FairSpec == Spec /\ WF_vars(Next)

-----------------------------------------------------------------------------
(* Vocabulary of the properties *)

Called(fn) == \E i \in DOMAIN calls : calls[i].fn = fn

CallCount(fn) == Cardinality({i \in DOMAIN calls : calls[i].fn = fn})

\* fn was called and gave this result
CalledWith(fn, result) ==
    \E i \in DOMAIN calls : calls[i].fn = fn /\ calls[i].result = result

\* every call of f comes before every call of g
CalledBefore(f, g) ==
    \A i, j \in DOMAIN calls : (calls[i].fn = f /\ calls[j].fn = g) => i < j

Entered(label) == \E i \in DOMAIN path : path[i] = label

EnteredBefore(a, b) ==
    \A i, j \in DOMAIN path : (path[i] = a /\ path[j] = b) => i < j

\* the run has not failed: no setFailed, no error output, exit code 0
NotFailed ==
    /\ pc # "failed"
    /\ failedMsg = None
    /\ outputs["prepare_error"] = None
    /\ exitCode = 0

\* s holds the self-review marker "<!-- claude-self-review -->" somewhere
HoldsSelfReviewMarker(s) ==
    \E i \in 1..Len(s) :
        i + 1 <= Len(s) /\ SubSeq(s, i, i + 1) = <<"<!-- claude-self-review", "-->">>

\* the three conditions of the incoming-event check, read off the event
MarkerInBody(ctx) ==
    /\ ctx.payload.comment # None
    /\ ctx.payload.comment[1].body # None
    /\ HoldsSelfReviewMarker(ctx.payload.comment[1].body[1])

AuthorIsBot(ctx) ==
    ctx.payload.comment # None /\ ctx.payload.comment[1].user.type = "Bot"

AuthorIsAutomation(ctx) ==
    ctx.payload.comment # None /\ ctx.payload.comment[1].user.login = "github-actions[bot]"

-----------------------------------------------------------------------------
(* Properties *)

\* C1: a prepare run whose trigger check returned false ends cleanly: it has
\* stopped, created no tracking comment, touched no branch, updated nothing,
\* ran neither the permission nor the human-actor check, did not fail and
\* set neither prepare_error nor mcp_config.
C1_NoTriggerCleanExit ==
    (entry = "prepare" /\ CalledWith("checkTriggerAction", "false")) =>
        /\ pc = "no-trigger"
        /\ ~ENABLED Next
        /\ calls[Len(calls)].fn = "checkTriggerAction"
        /\ ~Called("createInitialComment")
        /\ ~Called("setupBranch")
        /\ ~Called("updateTrackingComment")
        /\ ~Called("checkWritePermissions")
        /\ ~Called("checkHumanActor")
        /\ repo.tracking = <<>> /\ repo.branches = {}
        /\ NotFailed
        /\ outputs["mcp_config"] = None

C1_Witness ==
    /\ entry = "prepare"
    /\ CalledWith("checkTriggerAction", "false")
    /\ pc = "no-trigger"

\* C2: once the event has been classified, isSelfReview is true exactly when
\* the event is an issue comment whose body holds the self-review marker,
\* whose author's type is Bot and whose author's login is
\* github-actions[bot]; before the classification it is false.
C2_SelfReviewIffAllThree ==
    entry = "prepare" =>
        IF Entered("self-review-classified")
        THEN isSelfReview <=>
                /\ context[1].eventName = "issue_comment"
                /\ MarkerInBody(context[1])
                /\ AuthorIsBot(context[1])
                /\ AuthorIsAutomation(context[1])
        ELSE ~isSelfReview

C2_Witness ==
    /\ entry = "prepare"
    /\ Entered("self-review-classified")
    /\ isSelfReview
    /\ Len(context[1].payload.comment[1].body[1]) > 2

\* a human pasted the marker: marker in the body, but not classified
C2_WitnessHumanPaste ==
    /\ entry = "prepare"
    /\ Entered("self-review-classified")
    /\ MarkerInBody(context[1])
    /\ ~AuthorIsBot(context[1])
    /\ ~isSelfReview

\* C3: in a run classified as self-review neither checkWritePermissions nor
\* checkHumanActor is ever called, while checkTriggerAction was called, and
\* before the classification; and a self-review event for which the trigger
\* check returned false ends in the clean no-trigger exit.
C3_SelfReviewBypassesActorChecks ==
    /\ isSelfReview =>
          /\ ~Called("checkWritePermissions")
          /\ ~Called("checkHumanActor")
          /\ CalledWith("checkTriggerAction", "true")
          /\ Entered("trigger-checked")
          /\ EnteredBefore("trigger-checked", "self-review-classified")
    /\ (/\ entry = "prepare"
        /\ context # None
        /\ context[1].eventName = "issue_comment"
        /\ MarkerInBody(context[1])
        /\ AuthorIsBot(context[1])
        /\ AuthorIsAutomation(context[1])
        /\ CalledWith("checkTriggerAction", "false")) =>
          /\ pc = "no-trigger"
          /\ NotFailed
          /\ ~isSelfReview
          /\ Len(calls) = 3

C3_Witness ==
    /\ isSelfReview
    /\ pc = "done"
    /\ Called("createInitialComment")

\* C4: in a triggered run that is not classified as self-review the
\* tracking comment is created only after checkWritePermissions returned
\* true and then checkHumanActor returned; a missing write permission, or
\* a human-actor check that found a non-human account (or threw for any
\* reason), ends the run failed, exit code 1, with no tracking comment, no
\* data fetched and no branch touched.
C4_AuthorizedBeforeComment ==
    entry = "prepare" =>
        /\ (Called("createInitialComment") /\ ~isSelfReview) =>
              /\ CalledWith("checkWritePermissions", "true")
              /\ CalledWith("checkHumanActor", "ok")
              /\ CalledBefore("checkWritePermissions", "checkHumanActor")
              /\ CalledBefore("checkHumanActor", "createInitialComment")
        /\ (\/ CalledWith("checkWritePermissions", "false")
            \/ CalledWith("checkHumanActor", "threw")
            \/ \E i \in DOMAIN calls :
                  calls[i].fn = "checkHumanActor" /\ calls[i].arg = <<"Bot">>) =>
              /\ pc = "failed"
              /\ exitCode = 1
              /\ failedMsg # None
              /\ ~Called("createInitialComment")
              /\ ~Called("fetchGitHubData")
              /\ ~Called("setupBranch")
              /\ repo.tracking = <<>> /\ repo.branches = {}

C4_Witness ==
    /\ entry = "prepare"
    /\ CalledWith("checkWritePermissions", "false")
    /\ pc = "failed"

C4_WitnessBotActor ==
    /\ entry = "prepare"
    /\ \E i \in DOMAIN calls : calls[i].fn = "checkHumanActor" /\ calls[i].arg = <<"Bot">>
    /\ pc = "failed"

C4_WitnessCreated ==
    /\ entry = "prepare"
    /\ ~isSelfReview
    /\ Called("createInitialComment")
    /\ pc = "done"

\* s holds the marker "✅ No further improvements needed" somewhere
HoldsNoImprovementsMarker(s) ==
    \E i \in 1..Len(s) :
        i + 1 <= Len(s)
        /\ SubSeq(s, i, i + 1) = <<"[check-mark]", "No further improvements needed">>

\* the message the catch block derives from what call i threw
MessageOf(i) ==
    IF calls[i].error[1].isError THEN calls[i].error[1].message
    ELSE calls[i].error[1].string

\* s is an initial part of t
IsPrefix(s, t) == Len(s) <= Len(t) /\ SubSeq(t, 1, Len(s)) = s

\* C5: in a post run whose read of the prior comment succeeded with a body
\* holding the "no further improvements" marker, posting is suppressed:
\* createComment is never called, self_review_comment_id is never set, and
\* the run has ended without failure.
C5_MarkerSuppressesPost ==
    (/\ entry = "post"
     /\ priorRead.outcome = "ok"
     /\ priorRead.body # None
     /\ HoldsNoImprovementsMarker(priorRead.body[1])) =>
        /\ Entered("suppressed")
        /\ pc = "done"
        /\ ~ENABLED Next
        /\ ~Called("createComment")
        /\ repo.posted = <<>>
        /\ outputs["self_review_comment_id"] = None
        /\ NotFailed

C5_Witness ==
    /\ entry = "post"
    /\ priorRead.outcome = "ok"
    /\ priorRead.body # None
    /\ HoldsNoImprovementsMarker(priorRead.body[1])
    /\ Len(priorRead.body[1]) = 3
    /\ Entered("suppressed")

\* C6: when getComment throws, the post run does not fail because of it: it
\* goes on to post the self-review request; it can fail afterwards only
\* through createComment, and then the failure it reports is
\* createComment's, never the read's.
C6_ReadErrorFailsOpen ==
    (entry = "post" /\ priorRead.outcome = "threw") =>
        /\ CalledWith("getComment", "threw")
        /\ ~Entered("suppressed")
        /\ pc \in {"prior-comment-checked", "done", "failed"}
        /\ pc = "prior-comment-checked" =>
              NotFailed /\ ENABLED CreateSelfReviewComment
        /\ pc = "done" =>
              /\ NotFailed
              /\ Entered("comment-posted")
              /\ Len(repo.posted) = 1
              /\ calls[Len(calls)].fn = "createComment"
              /\ calls[Len(calls)].arg[2] = repo.posted[1].body
              /\ outputs["self_review_comment_id"] # None
        /\ pc = "failed" =>
              /\ calls[Len(calls)].fn = "createComment"
              /\ calls[Len(calls)].result = "threw"
              /\ failedMsg = Some(<<"Post self-review comment failed: ">>
                                     \o MessageOf(Len(calls)))

C6_Witness ==
    /\ entry = "post"
    /\ priorRead.outcome = "threw"
    /\ pc = "done"
    /\ Len(repo.posted) = 1

\* the posted body links back to the tracking comment whose id the run
\* was given
HasBackReference(body) ==
    /\ claudeCommentId # None
    /\ claudeCommentId[1] # <<>>
    /\ \E i \in 1..Len(body) :
          /\ body[i] = "#issuecomment-"
          /\ i + Len(claudeCommentId[1]) <= Len(body)
          /\ SubSeq(body, i + 1, i + Len(claudeCommentId[1])) = claudeCommentId[1]

\* C7: every comment the post run has posted holds the self-review marker
\* "<!-- claude-self-review -->" and a back-reference to the tracking
\* comment's id.
C7_PostedBodyHasMarker ==
    \A i \in DOMAIN repo.posted :
        /\ HoldsSelfReviewMarker(repo.posted[i].body)
        /\ HasBackReference(repo.posted[i].body)

\* C8: in a prepare run, a step that threw (or a write-permission check
\* that returned false) is the last step of the run: the run is in failed
\* and has stopped, prepare_error holds the error's message, setFailed was
\* called with it, the exit code is 1 and mcp_config is not set; and the
\* run is in failed only in this way.
C8_ExceptionGoesToFailed ==
    entry = "prepare" =>
        /\ \A i \in DOMAIN calls :
              calls[i].result = "threw" =>
                 /\ i = Len(calls)
                 /\ pc = "failed"
                 /\ ~ENABLED Next
                 /\ exitCode = 1
                 /\ outputs["prepare_error"] = Some(MessageOf(i))
                 /\ failedMsg = Some(<<"Prepare step failed with error: ">> \o MessageOf(i))
                 /\ outputs["mcp_config"] = None
        /\ CalledWith("checkWritePermissions", "false") =>
              /\ calls[Len(calls)].fn = "checkWritePermissions"
              /\ pc = "failed"
              /\ ~ENABLED Next
              /\ exitCode = 1
              /\ outputs["prepare_error"] =
                    Some(<<"Actor does not have write permissions to the repository">>)
              /\ outputs["mcp_config"] = None
        /\ pc = "failed" =>
              \/ calls[Len(calls)].result = "threw"
              \/ /\ calls[Len(calls)].fn = "checkWritePermissions"
                 /\ calls[Len(calls)].result = "false"
        /\ pc # "failed" => NotFailed

C8_Witness ==
    /\ entry = "prepare"
    /\ pc = "failed"
    /\ calls[Len(calls)].fn = "createPrompt"
    /\ ~calls[Len(calls)].error[1].isError
    /\ Called("updateTrackingComment")

\* the orchestrator states the specification names
IsNamedState(x) ==
    x \in {"start", "token-acquired", "trigger-checked", "self-review-classified",
           "authorized", "data-fetched", "comment-created", "branch-resolved",
           "comment-updated", "prompt-prepared", "config-prepared", "done"}

\* C9 (as stated): a successful prepare run passes through start,
\* token-acquired, trigger-checked, self-review-classified, authorized,
\* data-fetched, comment-created, branch-resolved, ..., done in this order:
\* the data is fetched before the tracking comment is created.
C9_DataFetchedBeforeComment ==
    (entry = "prepare" /\ pc = "done") =>
        /\ SelectSeq(path, IsNamedState) =
              << "start", "token-acquired", "trigger-checked", "self-review-classified",
                 "authorized", "data-fetched", "comment-created", "branch-resolved",
                 "comment-updated", "prompt-prepared", "config-prepared", "done" >>
        /\ CalledBefore("fetchGitHubData", "createInitialComment")
        /\ CalledBefore("createInitialComment", "setupBranch")

\* C9 (amended): a successful prepare run passes through start,
\* token-acquired, trigger-checked, self-review-classified, authorized,
\* comment-created, data-fetched, branch-resolved, comment-updated,
\* prompt-prepared, config-prepared, done in this order: the tracking
\* comment is created before the data is fetched, and the data is fetched
\* before the branch is resolved; an unfinished run has passed through an
\* initial part of this order.
C9_CommentCreatedBeforeData ==
    LET order == << "start", "token-acquired", "trigger-checked",
                    "self-review-classified", "authorized", "comment-created",
                    "data-fetched", "branch-resolved", "comment-updated",
                    "prompt-prepared", "config-prepared", "done" >>
    IN  entry = "prepare" =>
            /\ IsPrefix(SelectSeq(path, IsNamedState), order)
            /\ pc = "done" =>
                  /\ SelectSeq(path, IsNamedState) = order
                  /\ CallCount("createInitialComment") = 1
                  /\ CallCount("fetchGitHubData") = 1
                  /\ CallCount("setupBranch") = 1
            /\ CalledBefore("createInitialComment", "fetchGitHubData")
            /\ CalledBefore("fetchGitHubData", "setupBranch")
            /\ Called("fetchGitHubData") => Called("createInitialComment")
            /\ Called("setupBranch") => Called("fetchGitHubData")

C9_Witness ==
    /\ entry = "prepare"
    /\ pc = "done"
    /\ Called("fetchGitHubData")
    /\ outputs["mcp_config"] # None

\* how many of the outcomes suppressed / comment-posted / failed the run
\* has reached
OutcomesReached ==
    Cardinality({o \in {"suppressed", "comment-posted", "failed"} : Entered(o)})

IsPostNamedState(x) ==
    x \in {"start", "token-acquired", "prior-comment-checked", "suppressed",
           "comment-posted", "done"}

\* C10: the post run passes through start, token-acquired,
\* prior-comment-checked, then suppressed or comment-posted, then done; the
\* prior-comment check precedes the decision to post; a run reaches at most
\* one of suppressed / comment-posted / failed, and exactly one when it has
\* stopped; it creates at most one comment; a missing token and any
\* exception other than getComment's end it in failed with exit code 1.
C10_PostStateMachine ==
    entry = "post" =>
        /\ \/ IsPrefix(SelectSeq(path, IsPostNamedState),
                       << "start", "token-acquired", "prior-comment-checked",
                          "suppressed", "done" >>)
           \/ IsPrefix(SelectSeq(path, IsPostNamedState),
                       << "start", "token-acquired", "prior-comment-checked",
                          "comment-posted", "done" >>)
        /\ CalledBefore("getComment", "createComment")
        /\ (Called("createComment") \/ Entered("suppressed")) =>
              priorRead.outcome # "none"
        /\ OutcomesReached <= 1
        /\ ~ENABLED Next => OutcomesReached = 1
        /\ CallCount("createComment") <= 1
        /\ CallCount("getComment") <= 1
        /\ Len(repo.posted) <= 1
        /\ Len(repo.posted) = 1 <=> Entered("comment-posted")
        /\ \A i \in DOMAIN calls :
              (calls[i].result = "threw" /\ calls[i].fn # "getComment") =>
                  i = Len(calls) /\ pc = "failed"
        /\ (pc # "start" /\ ~Truthy(githubToken)) =>
              pc = "failed" /\ calls = <<>>
        /\ pc = "failed" =>
              /\ exitCode = 1
              /\ failedMsg # None
              /\ ~ENABLED Next
              /\ repo.posted = <<>>
        /\ pc # "failed" => NotFailed

C10_Witness ==
    /\ entry = "post"
    /\ pc = "failed"
    /\ calls # <<>>
    /\ calls[Len(calls)].fn = "createComment"
    /\ priorRead.outcome = "ok"

\* setupBranch has returned a working branch
HasWorkingBranch == branchInfo # None /\ branchInfo[1].claudeBranch # None

\* C11: in a prepare run updateTrackingComment is called exactly when
\* setupBranch returned and gave a working branch: it is called once Step 10
\* has been reached with a working branch, and never without one; without a
\* working branch the run still goes on to createPrompt and
\* prepareMcpConfig.
C11_UpdateIffWorkingBranch ==
    entry = "prepare" =>
        /\ Called("updateTrackingComment") =>
              /\ HasWorkingBranch
              /\ CalledWith("setupBranch", "ok")
              /\ CalledBefore("setupBranch", "updateTrackingComment")
        /\ (HasWorkingBranch /\ pc # "branch-resolved") =>
              Called("updateTrackingComment")
        /\ (branchInfo # None /\ ~HasWorkingBranch) =>
              /\ ~Called("updateTrackingComment")
              /\ \A i \in DOMAIN repo.tracking : repo.tracking[i].branch = None
              /\ pc \in {"branch-resolved", "comment-updated", "prompt-prepared",
                         "done", "failed"}
              /\ pc = "comment-updated" => ENABLED CreatePrompt
              /\ pc = "prompt-prepared" => ENABLED PrepareMcpConfig
              /\ pc = "done" =>
                    CalledWith("createPrompt", "ok") /\ CalledWith("prepareMcpConfig", "ok")
              /\ pc = "failed" =>
                    calls[Len(calls)].fn \in {"createPrompt", "prepareMcpConfig"}

C11_Witness ==
    /\ entry = "prepare"
    /\ branchInfo # None
    /\ ~HasWorkingBranch
    /\ pc = "done"
    /\ ~Called("updateTrackingComment")

C11_WitnessUpdated ==
    /\ entry = "prepare"
    /\ HasWorkingBranch
    /\ CalledWith("updateTrackingComment", "ok")
    /\ pc = "done"

\* C12: in every state of a prepare run at most one tracking comment has
\* been created and it has been updated at most once; the update is
\* addressed to the id the create step returned, and the same id is handed
\* to createPrompt and, as a decimal string, to prepareMcpConfig.
C12_OneCommentOneId ==
    entry = "prepare" =>
        /\ Len(repo.tracking) <= 1
        /\ CallCount("createInitialComment") <= 1
        /\ CallCount("updateTrackingComment") <= 1
        /\ \A i \in DOMAIN calls :
              /\ calls[i].fn \in {"updateTrackingComment", "createPrompt", "prepareMcpConfig"} =>
                    Len(repo.tracking) = 1
              /\ calls[i].fn = "updateTrackingComment" =>
                    calls[i].arg[1] = repo.tracking[1].id
              /\ calls[i].fn = "createPrompt" =>
                    calls[i].arg[1] = repo.tracking[1].id
              /\ calls[i].fn = "prepareMcpConfig" =>
                    ParseInt(calls[i].arg[1].claudeCommentId) = Some(repo.tracking[1].id)
        /\ CalledWith("updateTrackingComment", "ok") =>
              repo.tracking[1].branch = branchInfo[1].claudeBranch

C12_Witness ==
    /\ entry = "prepare"
    /\ pc = "done"
    /\ CalledWith("updateTrackingComment", "ok")
    /\ repo.tracking[1].id = MaxCommentId

\* C13: nothing after Step 7 runs unless createInitialComment returned: if it
\* threw, the run is failed and none of fetchGitHubData, setupBranch,
\* updateTrackingComment, createPrompt and prepareMcpConfig was called.
C13_CommentBeforeFurtherSteps ==
    LET later == {"fetchGitHubData", "setupBranch", "updateTrackingComment",
                  "createPrompt", "prepareMcpConfig"}
    IN  entry = "prepare" =>
            /\ CalledWith("createInitialComment", "threw") =>
                  /\ pc = "failed"
                  /\ exitCode = 1
                  /\ calls[Len(calls)].fn = "createInitialComment"
                  /\ \A f \in later : ~Called(f)
                  /\ repo.tracking = <<>> /\ repo.branches = {}
                  /\ outputs["mcp_config"] = None
            /\ \A f \in later :
                  Called(f) => /\ CalledWith("createInitialComment", "ok")
                               /\ CalledBefore("createInitialComment", f)

C13_Witness ==
    /\ entry = "prepare"
    /\ CalledWith("createInitialComment", "threw")
    /\ pc = "failed"

\* the collaborators prepare.ts calls
PrepareCollaborators ==
    {"setupGitHubToken", "parseGitHubContext", "checkTriggerAction",
     "checkWritePermissions", "checkHumanActor", "createInitialComment",
     "fetchGitHubData", "setupBranch", "updateTrackingComment", "createPrompt",
     "prepareMcpConfig"}

\* C14: the step that takes a prepare run to failed leaves what the run
\* has created as it is: the comments and branches in the repository, the
\* comment id and the branch info are unchanged, the only call made in that
\* step is the one that threw (no delete, no rollback), and of the run's
\* outputs only prepare_error, the setFailed message and the exit code
\* change.
C14_FailureLeavesEffects ==
    [][ (entry = "prepare" /\ pc # "failed" /\ pc' = "failed") =>
          /\ repo' = repo
          /\ commentId' = commentId
          /\ branchInfo' = branchInfo
          /\ context' = context
          /\ isSelfReview' = isSelfReview
          /\ containsTrigger' = containsTrigger
          /\ Len(calls') = Len(calls) + 1
          /\ SubSeq(calls', 1, Len(calls)) = calls
          /\ calls'[Len(calls')].fn \in PrepareCollaborators
          /\ calls'[Len(calls')].result \in {"threw", "false"}
          /\ \A k \in OutputKeys \ {"prepare_error"} : outputs'[k] = outputs[k]
          /\ exitCode' = 1
          /\ CalledWith("createInitialComment", "ok") => Len(repo'.tracking) = 1
          /\ HasWorkingBranch => branchInfo[1].claudeBranch[1] \in repo'.branches
    ]_vars

C14_Witness ==
    /\ entry = "prepare"
    /\ pc = "failed"
    /\ Len(repo.tracking) = 1
    /\ repo.branches # {}
    /\ repo.tracking[1].branch # None

\* C16: the outputs of a prepare run go with its final state: mcp_config
\* is set only in done, after every step before it returned; prepare_error
\* and exit code 1 are set only in failed; the two outputs are never both
\* set; the clean no-trigger exit sets neither.
C16_OutputsByTerminalState ==
    entry = "prepare" =>
        /\ outputs["mcp_config"] # None =>
              /\ pc = "done"
              /\ \A i \in DOMAIN calls : calls[i].result \notin {"threw", "false"}
              /\ CalledWith("checkTriggerAction", "true")
              /\ CalledWith("createInitialComment", "ok")
              /\ CalledWith("fetchGitHubData", "ok")
              /\ CalledWith("setupBranch", "ok")
              /\ CalledWith("createPrompt", "ok")
              /\ calls[Len(calls)].fn = "prepareMcpConfig"
              /\ outputs["prepare_error"] = None
              /\ failedMsg = None
              /\ exitCode = 0
        /\ (outputs["prepare_error"] # None \/ exitCode # 0 \/ failedMsg # None) =>
              /\ pc = "failed"
              /\ outputs["prepare_error"] # None
              /\ exitCode = 1
              /\ failedMsg # None
              /\ outputs["mcp_config"] = None
        /\ pc = "done" => outputs["mcp_config"] # None
        /\ pc = "no-trigger" =>
              /\ outputs["mcp_config"] = None
              /\ outputs["prepare_error"] = None
              /\ exitCode = 0
        /\ outputs["self_review_comment_id"] = None

C16_Witness ==
    /\ entry = "prepare"
    /\ pc = "failed"
    /\ outputs["prepare_error"] # None
    /\ calls[Len(calls)].fn = "prepareMcpConfig"

C16_WitnessDone ==
    /\ entry = "prepare"
    /\ pc = "done"
    /\ outputs["mcp_config"] # None

\* an environment variable is unset or empty
Unset(v) == v = None \/ v = Some(<<>>)

\* C18: in a post run without a tracking comment id (CLAUDE_COMMENT_ID
\* unset or empty) getComment is never called and nothing is suppressed:
\* once the guard is passed, createComment is the next call; posting is
\* suppressed, and getComment called, only in runs that have an id.
C18_NoIdNoRead ==
    entry = "post" =>
        /\ (Entered("token-acquired") /\ Unset(claudeCommentId)) =>
              /\ ~Called("getComment")
              /\ ~Entered("suppressed")
              /\ priorRead.outcome \in {"none", "skipped"}
              /\ Entered("prior-comment-checked") =>
                    /\ priorRead.outcome = "skipped"
                    /\ \/ pc = "prior-comment-checked" /\ ENABLED CreateSelfReviewComment
                       \/ calls[Len(calls)].fn = "createComment"
              /\ pc = "done" => Len(repo.posted) = 1
        /\ Called("getComment") => ~Unset(claudeCommentId)
        /\ Entered("suppressed") =>
              ~Unset(claudeCommentId) /\ CalledWith("getComment", "ok")

C18_Witness ==
    /\ entry = "post"
    /\ claudeCommentId = Some(<<>>)
    /\ pc = "done"
    /\ Len(repo.posted) = 1
    /\ ~Called("getComment")

\* C19: a post run without GITHUB_TOKEN (unset or empty) fails before any
\* repository operation: once the variables are read the run is failed
\* with exit code 1 and the message "GITHUB_TOKEN is required", and it has
\* called nothing, read nothing and created nothing; a run that goes on has
\* a token.
C19_MissingTokenFailsFirst ==
    entry = "post" =>
        /\ (pc # "start" /\ Unset(githubToken)) =>
              /\ pc = "failed"
              /\ path = <<"start", "failed">>
              /\ exitCode = 1
              /\ failedMsg = Some(<<"Post self-review comment failed: ",
                                    "GITHUB_TOKEN is required">>)
              /\ calls = <<>>
              /\ context = None
              /\ priorRead.outcome = "none"
              /\ repo.posted = <<>>
              /\ outputs["self_review_comment_id"] = None
              /\ ~ENABLED Next
        /\ calls # <<>> => ~Unset(githubToken)

C19_Witness ==
    /\ entry = "post"
    /\ githubToken = None
    /\ pc = "failed"
    /\ claudeCommentId # None

\* the issue_comment event the host delivers to a prepare run for a comment
\* the workflow's own token has posted: its author is the automation
\* identity
DeliveredEvent(comment) ==
    [eventName |-> "issue_comment",
     payload   |-> [comment |-> Some([body |-> Some(comment.body),
                                      user |-> [type  |-> "Bot",
                                                login |-> "github-actions[bot]"]])]]

\* C17: every comment the post run has posted, delivered to a prepare run
\* as an issue_comment event authored by the Bot "github-actions[bot]", is
\* classified as a self-review request by Step 4 of prepare.ts, so that
\* run skips the write-permission and human-actor checks.
C17_PostedCommentIsSelfReview ==
    \A i \in DOMAIN repo.posted :
        LET selfReview == IsSelfReviewComment(DeliveredEvent(repo.posted[i]))
        IN  selfReview /\ ~ActorChecksNeeded(selfReview)

\* no element occurs twice in seq
NoRepeat(seq) == \A i, j \in DOMAIN seq : seq[i] = seq[j] => i = j

\* the collaborators called so far, in order
CalledFns == [i \in DOMAIN calls |-> calls[i].fn]

\* how many of the outcomes of its state machine the run has reached
RunOutcomes ==
    IF entry = "prepare"
    THEN Cardinality({o \in {"done", "no-trigger", "failed"} : Entered(o)})
    ELSE OutcomesReached

\* the run has ended in exactly one outcome and takes no further step
Terminated == RunOutcomes = 1 /\ ~ENABLED Next

\* C15: every run is single-pass and terminates: no state is entered twice
\* and no collaborator is called twice, a run never reaches two of its
\* outcomes (prepare: done / clean no-trigger exit / failed; post:
\* suppressed / comment-posted / failed), and, every collaborator call
\* eventually returning or throwing, each run eventually ends in exactly
\* one of them and stays there.
C15_SinglePassTerminates ==
    /\ [](NoRepeat(path) /\ NoRepeat(CalledFns) /\ RunOutcomes <= 1)
    /\ <>[]Terminated

C15_Witness ==
    /\ entry = "prepare"
    /\ pc = "done"
    /\ Len(path) = Len(PrepareSteps)
    /\ Called("updateTrackingComment")
    /\ Terminated

C15_WitnessPost ==
    /\ entry = "post"
    /\ Entered("comment-posted")
    /\ CalledFns = <<"parseGitHubContext", "getComment", "createComment">>
    /\ Terminated

=============================================================================
